---- MODULE Spec2Model ----
(***************************************************************************)
(* Model of service/src/gen-py/hive_service/ThriftHive.py: the generated   *)
(* Thrift client stub (Client), server dispatcher (Processor) and the ten  *)
(* Args/Result structs of the Hive query service.                          *)
(*                                                                         *)
(* Wire format.  A struct payload is a sequence of integers, as the binary *)
(* protocol lays it out: per field a header (wire-type, field-id) followed *)
(* by the typed payload, and a STOP marker after the last field.  A string *)
(* is its length followed by its characters, a list is the element type    *)
(* and the size followed by the elements, an i32 is one integer.           *)
(*                                                                         *)
(* Python's None is the empty tuple <<>>, a populated field holding x is   *)
(* the one-element tuple <<x>>.                                            *)
(***************************************************************************)
EXTENDS Integers, Sequences, FiniteSets, TLC

(***************************************************************************)
(* Bounds of the model.                                                    *)
(***************************************************************************)
MaxListLen == 2
MaxUnknown == 2
MaxCalls == 2
MaxForeign == 1

(***************************************************************************)
(* TType wire-type codes referenced by the struct readers and writers.     *)
(***************************************************************************)
T_STOP == 0
T_I32 == 8
T_STRING == 11
T_STRUCT == 12
T_LIST == 15

None == <<>>
Some(x) == <<x>>

\* Sample strings: the empty string, a one-character and a two-character one.
Strings == {<<>>, <<1>>, <<2, 1>>}

RECURSIVE ListsUpTo(_)
ListsUpTo(n) ==
  IF n = 0 THEN {<<>>}
  ELSE LET shorter == ListsUpTo(n - 1)
       IN shorter \cup {Append(l, s) : l \in {t \in shorter : Len(t) = n - 1}, s \in Strings}

StringLists == ListsUpTo(MaxListLen)

I32Values == {-1, 0, 1, 2}

Opt(S) == {None} \cup {Some(x) : x \in S}

(***************************************************************************)
(* The static field-tag tables (thrift_spec) of the structs: per class the *)
(* entries (field id, wire type, field name) in the order write() emits    *)
(* them.  HiveServerException is declared in ttypes.py and                 *)
(* TApplicationException in the Thrift runtime.                            *)
(***************************************************************************)
ArgsClasses == {"execute_args", "fetchOne_args", "fetchN_args", "fetchAll_args", "getSchema_args"}
ResultClasses == {"execute_result", "fetchOne_result", "fetchN_result", "fetchAll_result",
                  "getSchema_result"}

FieldEntry(fid, ftype, name) == [fid |-> fid, ftype |-> ftype, name |-> name]

HiveServerException_spec == << FieldEntry(1, T_STRING, "message") >>

TApplicationException_spec ==
  << FieldEntry(1, T_STRING, "message"), FieldEntry(2, T_I32, "type") >>

thrift_spec(cls) ==
  CASE cls = "execute_args" -> << FieldEntry(1, T_STRING, "query") >>
    [] cls = "execute_result" -> << FieldEntry(1, T_STRUCT, "ex") >>
    [] cls \in {"fetchOne_args", "fetchAll_args", "getSchema_args"} -> << >>
    [] cls \in {"fetchOne_result", "getSchema_result"} ->
         << FieldEntry(0, T_STRING, "success"), FieldEntry(1, T_STRUCT, "ex") >>
    [] cls = "fetchN_args" -> << FieldEntry(1, T_I32, "numRows") >>
    [] cls \in {"fetchN_result", "fetchAll_result"} ->
         << FieldEntry(0, T_LIST, "success"), FieldEntry(1, T_STRUCT, "ex") >>
    [] cls = "HiveServerException" -> HiveServerException_spec
    [] cls = "TApplicationException" -> TApplicationException_spec

FieldNames(cls) == {thrift_spec(cls)[i].name : i \in 1..Len(thrift_spec(cls))}
FieldIds(cls) == {thrift_spec(cls)[i].fid : i \in 1..Len(thrift_spec(cls))}

\* The values of the declared exception: a message, or none.
HiveServerExceptions ==
  {[cls |-> "HiveServerException", message |-> m] : m \in Opt({<<>>, <<1>>})}

\* __init__ of a struct: every field None.
NewStruct(cls) ==
  [f \in {"cls"} \cup FieldNames(cls) |-> IF f = "cls" THEN cls ELSE None]

\* __eq__: same class and equal __dict__.
StructEq(a, b) == a.cls = b.cls /\ a = b

(***************************************************************************)
(* Encoding primitives of the protocol (the oprot.writeXxx calls).         *)
(***************************************************************************)
RECURSIVE Flatten(_)
Flatten(ss) == IF ss = <<>> THEN <<>> ELSE Head(ss) \o Flatten(Tail(ss))

writeString(s) == <<Len(s)>> \o s
writeI32(v) == <<v>>
writeFieldBegin(ftype, fid) == <<ftype, fid>>
writeListBegin(etype, size) == <<etype, size>>
writeFieldStop == <<T_STOP>>

\* The loop "for iter in self.success: oprot.writeString(iter)".
writeListElems(l) == Flatten([i \in 1..Len(l) |-> writeString(l[i])])

RECURSIVE write(_)

\* The payload written for one populated field of wire type ftype.
writeValue(ftype, v) ==
  CASE ftype = T_STRING -> writeString(v)
    [] ftype = T_I32 -> writeI32(v)
    [] ftype = T_LIST -> writeListBegin(T_STRING, Len(v)) \o writeListElems(v)
    [] ftype = T_STRUCT -> write(v)

\* writeField with the guard "if self.<field>:" (truthiness) in place of
\* "!= None": an empty string, an empty list or a zero is then not written.
writeField_truthy(o, e) ==
  IF o[e.name] # None
     /\ (e.ftype \in {T_STRING, T_LIST} => o[e.name][1] # <<>>)
     /\ (e.ftype = T_I32 => o[e.name][1] # 0)
  THEN writeFieldBegin(e.ftype, e.fid) \o writeValue(e.ftype, o[e.name][1])
  ELSE <<>>

\* "if self.<field> != None: writeFieldBegin; <payload>; writeFieldEnd".
writeField(o, e) ==
  IF o[e.name] # None
  THEN writeFieldBegin(e.ftype, e.fid) \o writeValue(e.ftype, o[e.name][1])
  ELSE <<>>

\* The field chunks write() emits, in order, one per thrift_spec entry.
writeFields(o) ==
  [i \in 1..Len(thrift_spec(o.cls)) |-> writeField(o, thrift_spec(o.cls)[i])]

\* <struct>.write(oprot): the fields, then the stop marker.
write(o) == Flatten(writeFields(o)) \o writeFieldStop

(***************************************************************************)
(* Decoding primitives of the protocol (the iprot.readXxx calls and        *)
(* iprot.skip).  A read returns [ok, pos, val]: whether the bytes were     *)
(* there, the position after the value, and the value.  Reading past the   *)
(* end of the payload is the transport's failure (ok = FALSE).             *)
(***************************************************************************)
ReadFail == [ok |-> FALSE, pos |-> 0, val |-> None]
ReadOk(pos, val) == [ok |-> TRUE, pos |-> pos, val |-> val]

readI32(buf, pos) ==
  IF pos <= Len(buf) THEN ReadOk(pos + 1, buf[pos]) ELSE ReadFail

readString(buf, pos) ==
  IF pos <= Len(buf) /\ buf[pos] >= 0 /\ pos + buf[pos] <= Len(buf)
  THEN ReadOk(pos + 1 + buf[pos], SubSeq(buf, pos + 1, pos + buf[pos]))
  ELSE ReadFail

\* readFieldBegin: the wire type, and the field id unless the type is STOP.
readFieldBegin(buf, pos) ==
  IF pos > Len(buf) THEN ReadFail
  ELSE IF buf[pos] = T_STOP THEN ReadOk(pos + 1, [ftype |-> T_STOP, fid |-> 0])
  ELSE IF pos + 1 > Len(buf) THEN ReadFail
  ELSE ReadOk(pos + 2, [ftype |-> buf[pos], fid |-> buf[pos + 1]])

\* readListBegin: element type and size.
readListBegin(buf, pos) ==
  IF pos + 1 <= Len(buf) /\ buf[pos + 1] >= 0
  THEN ReadOk(pos + 2, [etype |-> buf[pos], size |-> buf[pos + 1]])
  ELSE ReadFail

\* "for _i in xrange(_size): _elem = iprot.readString(); success.append(_elem)".
RECURSIVE readListElems(_, _, _, _)
readListElems(buf, pos, n, acc) ==
  IF n = 0 THEN ReadOk(pos, acc)
  ELSE LET r == readString(buf, pos)
       IN IF r.ok THEN readListElems(buf, r.pos, n - 1, Append(acc, r.val)) ELSE ReadFail

\* iprot.skip(ftype): the position after a value of wire type ftype, 0 when
\* the payload ends inside it.
RECURSIVE skip(_, _, _)
RECURSIVE skipListElems(_, _, _, _)
RECURSIVE skipStructFields(_, _)

skipListElems(etype, buf, pos, n) ==
  IF n = 0 THEN pos
  ELSE LET p == skip(etype, buf, pos)
       IN IF p = 0 THEN 0 ELSE skipListElems(etype, buf, p, n - 1)

skipStructFields(buf, pos) ==
  LET h == readFieldBegin(buf, pos)
  IN IF ~h.ok THEN 0
     ELSE IF h.val.ftype = T_STOP THEN h.pos
     ELSE LET p == skip(h.val.ftype, buf, h.pos)
          IN IF p = 0 THEN 0 ELSE skipStructFields(buf, p)

skip(ftype, buf, pos) ==
  CASE ftype = T_STRING -> readString(buf, pos).pos
    [] ftype = T_I32 -> readI32(buf, pos).pos
    [] ftype = T_LIST ->
         LET l == readListBegin(buf, pos)
         IN IF l.ok THEN skipListElems(l.val.etype, buf, l.pos, l.val.size) ELSE 0
    [] ftype = T_STRUCT -> skipStructFields(buf, pos)
    [] OTHER -> pos

(***************************************************************************)
(* <struct>.read(iprot): the field loop of the generated readers.          *)
(***************************************************************************)
\* The thrift_spec entries of cls with field id fid (the "if fid == n" arms).
FieldArm(cls, fid) ==
  {thrift_spec(cls)[i] : i \in {j \in 1..Len(thrift_spec(cls)) : thrift_spec(cls)[j].fid = fid}}

RECURSIVE readFields(_, _, _)

\* The decoding arm taken when the wire type matches the declared one.
readValue(ftype, buf, pos) ==
  CASE ftype = T_STRING -> readString(buf, pos)
    [] ftype = T_I32 -> readI32(buf, pos)
    [] ftype = T_LIST ->
         LET l == readListBegin(buf, pos)
         IN IF l.ok THEN readListElems(buf, l.pos, l.val.size, <<>>) ELSE ReadFail
    [] ftype = T_STRUCT -> readFields(NewStruct("HiveServerException"), buf, pos)

\* skipField without the call of iprot.skip: the field's payload is left in
\* the input and read as the next field header.
skipField_noskip(o, ftype, buf, pos) == ReadOk(pos, o)

\* The arm for a field whose id or wire type the struct does not know:
\* "else: iprot.skip(ftype)"; the struct is left as it is.
skipField(o, ftype, buf, pos) ==
  LET p == skip(ftype, buf, pos)
  IN IF p = 0 THEN ReadFail ELSE ReadOk(p, o)

\* One iteration of the loop for a field header (ftype, fid) read at pos.
readField(o, ftype, fid, buf, pos) ==
  LET arm == FieldArm(o.cls, fid)
  IN IF arm # {} /\ (CHOOSE e \in arm : TRUE).ftype = ftype
     THEN LET e == CHOOSE e \in arm : TRUE
              r == readValue(ftype, buf, pos)
          IN IF r.ok THEN ReadOk(r.pos, [o EXCEPT ![e.name] = Some(r.val)]) ELSE ReadFail
     ELSE skipField(o, ftype, buf, pos)

\* "while True: readFieldBegin; if ftype == STOP: break; ...; readFieldEnd".
readFields(o, buf, pos) ==
  LET h == readFieldBegin(buf, pos)
  IN IF ~h.ok THEN ReadFail
     ELSE IF h.val.ftype = T_STOP THEN ReadOk(h.pos, o)
     ELSE LET r == readField(o, h.val.ftype, h.val.fid, buf, h.pos)
          IN IF r.ok THEN readFields(r.val, buf, r.pos) ELSE ReadFail

\* <struct>.read(iprot) on a fresh instance of cls, from position pos of buf.
read(cls, buf, pos) == readFields(NewStruct(cls), buf, pos)

(***************************************************************************)
(* The RPC layer: envelopes, the client stub and the processor.            *)
(***************************************************************************)
\* TApplicationException reason codes used by the stub and the dispatcher.
UNKNOWN_METHOD == 1
MISSING_RESULT == 5

Names == {"execute", "fetchOne", "fetchN", "fetchAll", "getSchema"}

\* A method name no processor of this service registers.
UnregisteredNames == {"bogus"}

Conns == {"client", "foreign"}

ArgsClass(op) ==
  CASE op = "execute" -> "execute_args"
    [] op = "fetchOne" -> "fetchOne_args"
    [] op = "fetchN" -> "fetchN_args"
    [] op = "fetchAll" -> "fetchAll_args"
    [] op = "getSchema" -> "getSchema_args"

ResultClass(op) ==
  CASE op = "execute" -> "execute_result"
    [] op = "fetchOne" -> "fetchOne_result"
    [] op = "fetchN" -> "fetchN_result"
    [] op = "fetchAll" -> "fetchAll_result"
    [] op = "getSchema" -> "getSchema_result"

\* Message texts, as strings of the wire: a text code and the name's code.
NameCode(name) ==
  CASE name = "execute" -> 1
    [] name = "fetchOne" -> 2
    [] name = "fetchN" -> 3
    [] name = "fetchAll" -> 4
    [] name = "getSchema" -> 5
    [] OTHER -> 9

\* "<op> failed: unknown result"
FailedUnknownResult(op) == <<70, NameCode(op)>>

\* 'Unknown function %s' % (name)
UnknownFunction(name) == <<85, NameCode(name)>>

\* TApplicationException(type, message)
TApplicationException(type, message) ==
  [cls |-> "TApplicationException", message |-> Some(message), type |-> Some(type)]

\* An envelope (name, message kind, sequence id) with its payload.
Message(name, mtype, sid, body) ==
  [name |-> name, mtype |-> mtype, seqid |-> sid, body |-> body]

(***************************************************************************)
(* State of the codec run (SpecCodec).                                     *)
(***************************************************************************)
VARIABLES
  obj,         \* the struct handed to write()
  chunks,      \* the field chunks on the wire: write()'s, plus added fields
  dec,         \* what read() returned
  cphase,      \* "new", "written", "read"
  nunk         \* the number of added fields

codecVars == <<obj, chunks, dec, cphase, nunk>>

(***************************************************************************)
(* State of the RPC run (Spec).                                            *)
(***************************************************************************)
VARIABLES
  seqid,       \* Client._seqid
  processMap,  \* Processor._processMap: name -> process_<name>
  cpc,         \* the client: "idle", or "recv" when blocked in recv_<op>
  cop,         \* the operation of the client's current (or last) call
  cwbuf,       \* the client's oprot: messages written and not yet flushed
  swbuf,       \* the processor's oprot per connection, likewise
  toServer,    \* per connection: flushed requests the server has not read
  fromServer,  \* per connection: flushed responses the caller has not read
  resp,        \* the response envelope the client's last recv_<op> read
  outcome,     \* how the client's last call ended
  ncalls,      \* client calls started
  nsent,       \* CALL messages the client has flushed
  nrecv,       \* response envelopes the client has read
  nforeign,    \* requests sent by the other caller
  proc,        \* what the last Processor.process call did
  prev         \* history (SpecHistory): the client's call before the current
               \* one when it was a call of the same operation

rpcVars == <<seqid, processMap, cpc, cop, cwbuf, swbuf, toServer, fromServer, resp, outcome,
             ncalls, nsent, nrecv, nforeign, proc, prev>>

NoResp == Message("-", "-", 0, <<>>)

NoOutcome == [kind |-> "none", exc |-> "-", val |-> None, decoded |-> "-"]
Return(v) == [kind |-> "return", exc |-> "-", val |-> v, decoded |-> "-"]
Raise(exc, x) == [kind |-> "raise", exc |-> exc, val |-> Some(x), decoded |-> "-"]
Decoded(out, cls) == [out EXCEPT !.decoded = cls]

NoProc ==
  [conn |-> "-", req |-> NoResp, name |-> "-", seqid |-> 0, ret |-> "-", hcalls |-> <<>>,
   beh |-> None, result |-> None, replies |-> <<>>, unread |-> 0]

NoPrev == [op |-> "-", resp |-> NoResp, outcome |-> NoOutcome]

RpcInit ==
  /\ prev = NoPrev
  /\ seqid = 0
  /\ processMap = [n \in Names |-> n]
  /\ cpc = "idle"
  /\ cop = "-"
  /\ cwbuf = <<>>
  /\ swbuf = [c \in Conns |-> <<>>]
  /\ toServer = [c \in Conns |-> <<>>]
  /\ fromServer = [c \in Conns |-> <<>>]
  /\ resp = NoResp
  /\ outcome = NoOutcome
  /\ ncalls = 0
  /\ nsent = 0
  /\ nrecv = 0
  /\ nforeign = 0
  /\ proc = NoProc


(***************************************************************************)
(* Client.                                                                 *)
(***************************************************************************)
\* sendCall without the flush: the message stays in the write buffer.
sendCall_noflush(name, args) ==
  /\ cwbuf' = Append(cwbuf, Message(name, "CALL", seqid, write(args)))
  /\ UNCHANGED <<toServer, nsent, seqid>>

\* The body of send_<op>: writeMessageBegin(name, CALL, self._seqid);
\* args.write(oprot); writeMessageEnd(); oprot.trans.flush().
\* sendCall in a client that numbers its calls: each send advances _seqid.
sendCall_incr(name, args) ==
  LET written == Append(cwbuf, Message(name, "CALL", seqid, write(args)))
  IN /\ toServer' = [toServer EXCEPT !["client"] = @ \o written]
     /\ cwbuf' = <<>>
     /\ nsent' = nsent + Len(written)
     /\ seqid' = seqid + 1

sendCall(name, args) ==
  LET written == Append(cwbuf, Message(name, "CALL", seqid, write(args)))
  IN /\ toServer' = [toServer EXCEPT !["client"] = @ \o written]
     /\ cwbuf' = <<>>
     /\ nsent' = nsent + Len(written)
     /\ UNCHANGED seqid

send_execute(query) ==
  sendCall("execute", [NewStruct("execute_args") EXCEPT !.query = query])

send_fetchOne == sendCall("fetchOne", NewStruct("fetchOne_args"))

send_fetchN(numRows) ==
  sendCall("fetchN", [NewStruct("fetchN_args") EXCEPT !.numRows = numRows])

send_fetchAll == sendCall("fetchAll", NewStruct("fetchAll_args"))

send_getSchema == sendCall("getSchema", NewStruct("getSchema_args"))

\* recvException that returns the decoded exception instead of raising it.
recvException_return(msg) ==
  LET x == read("TApplicationException", msg.body, 1)
  IN Decoded(Return(Some(x.val)), "TApplicationException")

\* "if mtype == TMessageType.EXCEPTION: x = TApplicationException();
\*  x.read(iprot); readMessageEnd(); raise x".
recvException(msg) ==
  LET x == read("TApplicationException", msg.body, 1)
  IN IF x.ok
     THEN Decoded(Raise("TApplicationException", x.val), "TApplicationException")
     ELSE Decoded(Raise("TransportError", None), "TApplicationException")

\* recv_execute_result with the tail of the other four recv methods: an
\* empty result struct raises MISSING_RESULT.
recv_execute_result_missing(msg) ==
  IF msg.mtype = "EXCEPTION" THEN recvException(msg)
  ELSE LET r == read("execute_result", msg.body, 1)
       IN Decoded(IF ~r.ok THEN Raise("TransportError", None)
                  ELSE IF r.val.ex # None THEN Raise("HiveServerException", r.val.ex[1])
                  ELSE Raise("TApplicationException",
                             TApplicationException(MISSING_RESULT,
                                                   FailedUnknownResult("execute"))),
                  "execute_result")

\* recv_execute, after readMessageBegin returned msg.
recv_execute_result(msg) ==
  IF msg.mtype = "EXCEPTION" THEN recvException(msg)
  ELSE LET r == read("execute_result", msg.body, 1)
       IN Decoded(IF ~r.ok THEN Raise("TransportError", None)
                  ELSE IF r.val.ex # None THEN Raise("HiveServerException", r.val.ex[1])
                  ELSE Return(None),
                  "execute_result")

\* recv_result that returns None for a result struct with neither field
\* populated instead of raising MISSING_RESULT.
recv_result_nomissing(op, msg) ==
  IF msg.mtype = "EXCEPTION" THEN recvException(msg)
  ELSE LET r == read(ResultClass(op), msg.body, 1)
       IN Decoded(IF ~r.ok THEN Raise("TransportError", None)
                  ELSE IF r.val.success # None THEN Return(r.val.success)
                  ELSE IF r.val.ex # None THEN Raise("HiveServerException", r.val.ex[1])
                  ELSE Return(None),
                  ResultClass(op))

\* recv_result with the test "if result.success:" (truthiness) in place of
\* "!= None": an empty string or list is treated as absent.
recv_result_truthy(op, msg) ==
  IF msg.mtype = "EXCEPTION" THEN recvException(msg)
  ELSE LET r == read(ResultClass(op), msg.body, 1)
       IN Decoded(IF ~r.ok THEN Raise("TransportError", None)
                  ELSE IF r.val.success # None /\ r.val.success[1] # <<>>
                       THEN Return(r.val.success)
                  ELSE IF r.val.ex # None THEN Raise("HiveServerException", r.val.ex[1])
                  ELSE Raise("TApplicationException",
                             TApplicationException(MISSING_RESULT, FailedUnknownResult(op))),
                  ResultClass(op))

\* recv_result with the two tests in the other order: a populated ex is
\* raised even when success is populated too.
recv_result_exfirst(op, msg) ==
  IF msg.mtype = "EXCEPTION" THEN recvException(msg)
  ELSE LET r == read(ResultClass(op), msg.body, 1)
       IN Decoded(IF ~r.ok THEN Raise("TransportError", None)
                  ELSE IF r.val.ex # None THEN Raise("HiveServerException", r.val.ex[1])
                  ELSE IF r.val.success # None THEN Return(r.val.success)
                  ELSE Raise("TApplicationException",
                             TApplicationException(MISSING_RESULT, FailedUnknownResult(op))),
                  ResultClass(op))

\* recv_result that first compares the envelope with the request it sent
\* and refuses a reply of another name or sequence id.
recv_result_checked(op, msg) ==
  IF msg.mtype = "EXCEPTION" THEN recvException(msg)
  ELSE IF msg.name # op \/ msg.seqid # seqid
  THEN Decoded(Raise("TApplicationException", TApplicationException(4, <<>>)), "-")
  ELSE LET r == read(ResultClass(op), msg.body, 1)
       IN Decoded(IF ~r.ok THEN Raise("TransportError", None)
                  ELSE IF r.val.success # None THEN Return(r.val.success)
                  ELSE IF r.val.ex # None THEN Raise("HiveServerException", r.val.ex[1])
                  ELSE Raise("TApplicationException",
                             TApplicationException(MISSING_RESULT, FailedUnknownResult(op))),
                  ResultClass(op))

\* recv_fetchOne, recv_fetchN, recv_fetchAll and recv_getSchema, after
\* readMessageBegin returned msg.
recv_result(op, msg) ==
  IF msg.mtype = "EXCEPTION" THEN recvException(msg)
  ELSE LET r == read(ResultClass(op), msg.body, 1)
       IN Decoded(IF ~r.ok THEN Raise("TransportError", None)
                  ELSE IF r.val.success # None THEN Return(r.val.success)
                  ELSE IF r.val.ex # None THEN Raise("HiveServerException", r.val.ex[1])
                  ELSE Raise("TApplicationException",
                             TApplicationException(MISSING_RESULT, FailedUnknownResult(op))),
                  ResultClass(op))

\* The first half of a call <op>(...): the caller enters the method, which
\* runs send_<op> and then blocks in recv_<op>.  The records of the previous
\* exchange (outcome, proc) are cleared.  Exchanges on the two connections
\* are independent of each other and are taken one at a time.
beginCall(op) ==
  /\ cpc = "idle"
  /\ ncalls < MaxCalls
  /\ toServer["foreign"] = <<>> /\ fromServer["foreign"] = <<>>
  /\ cpc' = "recv"
  /\ cop' = op
  /\ ncalls' = ncalls + 1
  /\ resp' = NoResp
  /\ outcome' = NoOutcome
  /\ proc' = NoProc
  /\ UNCHANGED <<processMap, swbuf, fromServer, nrecv, nforeign>>
  /\ UNCHANGED codecVars

\* The second half: readMessageBegin returns the next response envelope and
\* the call ends as out says.
endCall(op, out) ==
  /\ cpc = "recv"
  /\ cop = op
  /\ fromServer["client"] # <<>>
  /\ resp' = Head(fromServer["client"])
  /\ outcome' = out
  /\ fromServer' = [fromServer EXCEPT !["client"] = Tail(@)]
  /\ nrecv' = nrecv + 1
  /\ cpc' = "idle"
  /\ UNCHANGED <<prev, seqid, processMap, cop, cwbuf, swbuf, toServer, ncalls, nsent, nforeign,
                 proc>>
  /\ UNCHANGED codecVars

Response == Head(fromServer["client"])

\* The history variable is not kept in the RPC run.
forget == UNCHANGED prev

\* The history variable takes the record of the call that has just ended,
\* when the call now starting is of the same operation.
remember(op) ==
  prev' = IF resp # NoResp /\ cop = op
          THEN [op |-> cop, resp |-> resp, outcome |-> outcome]
          ELSE NoPrev

execute == \E query \in Opt(Strings) : beginCall("execute") /\ send_execute(query) /\ forget

recv_execute == endCall("execute", recv_execute_result(Response))

fetchOne == beginCall("fetchOne") /\ send_fetchOne /\ forget

recv_fetchOne == endCall("fetchOne", recv_result("fetchOne", Response))

fetchN == \E numRows \in Opt(I32Values) : beginCall("fetchN") /\ send_fetchN(numRows) /\ forget

recv_fetchN == endCall("fetchN", recv_result("fetchN", Response))

fetchAll == beginCall("fetchAll") /\ send_fetchAll /\ forget

recv_fetchAll == endCall("fetchAll", recv_result("fetchAll", Response))

getSchema == beginCall("getSchema") /\ send_getSchema /\ forget

recv_getSchema == endCall("getSchema", recv_result("getSchema", Response))


(***************************************************************************)
(* Processor.                                                              *)
(***************************************************************************)
\* What the handler (supplied by the caller of Processor) may do when one of
\* its methods is invoked: return a value (or None), raise the declared
\* HiveServerException, or raise anything else.
HandlerReturns(op) ==
  CASE op = "execute" -> {None}
    [] op \in {"fetchOne", "getSchema"} -> Opt(Strings)
    [] op \in {"fetchN", "fetchAll"} ->
         {None, Some(<<>>), Some(<< <<1>> >>), Some(<< <<>>, <<2, 1>> >>)}

BehaviourKinds == {"return", "raise_hse", "raise_other"}

\* What goes with each kind: the value returned, the exception raised.
BehaviourVals(op, kind) ==
  CASE kind = "return" -> HandlerReturns(op)
    [] kind = "raise_hse" -> {Some(x) : x \in HiveServerExceptions}
    [] kind = "raise_other" -> {None}

\* The argument process_<op> hands to the handler method.
handlerArg(op, args) ==
  CASE op = "execute" -> args.query
    [] op = "fetchN" -> args.numRows
    [] OTHER -> None

\* resultAfter that leaves a default success value in place when the handler
\* raises: both fields are then populated.
resultAfter_both(op, beh) ==
  IF beh.kind = "return"
  THEN IF op = "execute" THEN NewStruct(ResultClass(op))
       ELSE [NewStruct(ResultClass(op)) EXCEPT !.success = beh.val]
  ELSE IF op = "execute" THEN [NewStruct(ResultClass(op)) EXCEPT !.ex = beh.val]
       ELSE [NewStruct(ResultClass(op)) EXCEPT !.success = Some(<<>>), !.ex = beh.val]

\* The result struct of process_<op> after the try block:
\* "result = <op>_result(); try: result.success = self._handler.<op>(...)
\*  except HiveServerException, ex: result.ex = ex"
\* (process_execute discards what the handler returns).
resultAfter(op, beh) ==
  IF beh.kind = "return"
  THEN IF op = "execute" THEN NewStruct(ResultClass(op))
       ELSE [NewStruct(ResultClass(op)) EXCEPT !.success = beh.val]
  ELSE [NewStruct(ResultClass(op)) EXCEPT !.ex = beh.val]

\* propagates for a handler call wrapped in "except Exception": nothing
\* leaves the try block.
propagates_catchall(beh) == FALSE

\* Whether the exception of beh leaves the try block of process_<op>.
propagates(beh) == beh.kind = "raise_other"

\* replyMessage that numbers the reply with a sequence id of the processor's
\* own instead of the request's.
replyMessage_ownseq(op, sid, result) == Message(op, "REPLY", 0, write(result))

\* writeMessageBegin("<op>", REPLY, seqid); result.write(oprot); writeMessageEnd().
replyMessage(op, sid, result) == Message(op, "REPLY", sid, write(result))

\* process, unknown name: x = TApplicationException(UNKNOWN_METHOD, ...);
\* writeMessageBegin(name, EXCEPTION, seqid); x.write(oprot); writeMessageEnd().
unknownMethodMessage(name, sid) ==
  Message(name, "EXCEPTION", sid,
          write(TApplicationException(UNKNOWN_METHOD, UnknownFunction(name))))

\* dispatch that falls back to a registered function for an unknown name.
dispatch_fallback(name) ==
  IF name \in DOMAIN processMap THEN processMap[name] ELSE "fetchAll"

\* The process_<op> function process() calls for name, "-" when the name is
\* not in self._processMap.
dispatch(name) == IF name \in DOMAIN processMap THEN processMap[name] ELSE "-"

\* The messages msgs are written to the connection's oprot and flushed.
writeAndFlush(conn, msgs) ==
  /\ fromServer' = [fromServer EXCEPT ![conn] = @ \o swbuf[conn] \o msgs]
  /\ swbuf' = [swbuf EXCEPT ![conn] = <<>>]

Request(conn) == Head(toServer[conn])

serverFrame ==
  /\ UNCHANGED <<prev, seqid, processMap, cpc, cop, cwbuf, resp, outcome, ncalls, nsent, nrecv,
                 nforeign>>
  /\ UNCHANGED codecVars

\* Processor.process on a message whose name is not in the dispatch table.
process_unknown(conn) ==
  /\ toServer[conn] # <<>>
  /\ dispatch(Request(conn).name) = "-"
  /\ LET msg == Request(conn)
         p == skip(T_STRUCT, msg.body, 1)
         out == IF p = 0 THEN <<>> ELSE <<unknownMethodMessage(msg.name, msg.seqid)>>
     IN /\ writeAndFlush(conn, out)
        /\ proc' = [conn |-> conn, req |-> msg, name |-> msg.name, seqid |-> msg.seqid,
                    ret |-> IF p = 0 THEN "raised" ELSE "None",
                    hcalls |-> <<>>, beh |-> None, result |-> None, replies |-> out,
                    unread |-> IF p = 0 THEN 0 ELSE Len(msg.body) + 1 - p]
  /\ toServer' = [toServer EXCEPT ![conn] = Tail(@)]
  /\ serverFrame

\* Processor.process on a registered name: the call of process_<op>.
processOp(conn, op) ==
  /\ toServer[conn] # <<>>
  /\ dispatch(Request(conn).name) = op
  /\ \E kind \in BehaviourKinds : \E v \in BehaviourVals(op, kind) :
       LET beh == [kind |-> kind, val |-> v]
           msg == Request(conn)
           args == read(ArgsClass(op), msg.body, 1)
           result == resultAfter(op, beh)
           replied == args.ok /\ ~propagates(beh)
           out == IF replied THEN <<replyMessage(op, msg.seqid, result)>> ELSE <<>>
       IN /\ writeAndFlush(conn, out)
          /\ proc' = [conn |-> conn, req |-> msg, name |-> msg.name, seqid |-> msg.seqid,
                      ret |-> IF replied THEN "True" ELSE "raised",
                      hcalls |-> IF args.ok
                                 THEN <<[method |-> op, arg |-> handlerArg(op, args.val)]>>
                                 ELSE <<>>,
                      beh |-> IF args.ok THEN Some(beh) ELSE None,
                      result |-> IF replied THEN Some(result) ELSE None,
                      replies |-> out,
                      unread |-> IF args.ok THEN Len(msg.body) + 1 - args.pos ELSE 0]
  /\ toServer' = [toServer EXCEPT ![conn] = Tail(@)]
  /\ serverFrame

process_execute(conn) == processOp(conn, "execute")

process_fetchOne(conn) == processOp(conn, "fetchOne")

process_fetchN(conn) == processOp(conn, "fetchN")

process_fetchAll(conn) == processOp(conn, "fetchAll")

process_getSchema(conn) == processOp(conn, "getSchema")

(***************************************************************************)
(* The environment: another server implementation answering the client,    *)
(* and another caller driving the processor on its own connection.         *)
(***************************************************************************)
SampleException == [cls |-> "HiveServerException", message |-> Some(<<1>>)]

\* Result structs another server may send for op: any combination of a
\* populated or absent success and ex.
PeerResults(op) ==
  IF op = "execute"
  THEN {[cls |-> "execute_result", ex |-> x] : x \in {None, Some(SampleException)}}
  ELSE {[cls |-> ResultClass(op), success |-> v, ex |-> x] :
          v \in IF op \in {"fetchOne", "getSchema"}
                THEN {None, Some(<<>>), Some(<<2, 1>>)}
                ELSE {None, Some(<<>>), Some(<< <<>>, <<1>> >>)},
          x \in {None, Some(SampleException)}}

\* The payloads of those results, as written, and with a field of an
\* unknown id ahead of the known ones.
PeerPayloads(op) ==
  {write(r) : r \in PeerResults(op)}
    \cup {<<T_I32, 2, 0>> \o write(r) : r \in PeerResults(op)}

PeerExceptions ==
  {TApplicationException(UNKNOWN_METHOD, UnknownFunction("bogus")),
   TApplicationException(MISSING_RESULT, <<>>),
   NewStruct("TApplicationException")}

PeerResponses(req) ==
  {Message(n, "REPLY", sid, body) :
     n \in {req.name, "bogus"}, sid \in {req.seqid, req.seqid + 1},
     body \in PeerPayloads(req.name)}
    \cup {Message(n, "EXCEPTION", sid, write(x)) :
            n \in {req.name, "bogus"}, sid \in {req.seqid, req.seqid + 1},
            x \in PeerExceptions}

\* The client's request is served by another implementation of the service.
PeerReply ==
  /\ toServer["client"] # <<>>
  /\ \E rsp \in PeerResponses(Request("client")) :
       fromServer' = [fromServer EXCEPT !["client"] = Append(@, rsp)]
  /\ toServer' = [toServer EXCEPT !["client"] = Tail(@)]
  /\ UNCHANGED <<swbuf, proc>>
  /\ serverFrame

\* Argument payloads another caller may send under name.
ForeignPayloads(name) ==
  CASE name = "execute" ->
         {write([cls |-> "execute_args", query |-> q]) : q \in {None, Some(<<1>>)}}
           \cup {<<T_STRUCT, 2, T_STRING, 1, 0, T_STOP>>
                   \o write([cls |-> "execute_args", query |-> Some(<<2, 1>>)])}
    [] name = "fetchN" ->
         {write([cls |-> "fetchN_args", numRows |-> n]) : n \in {None, Some(0), Some(2)}}
           \cup {<<T_STRING, 1, 1, 2, T_STOP>>}
    [] OTHER ->
         {<<T_STOP>>,
          <<T_STRING, 1, 1, 1, T_STOP>>,
          <<T_STRUCT, 1, T_I32, 1, 0, T_STOP, T_LIST, 2, T_STRING, 1, 0, T_STOP>>}

ForeignRequests ==
  UNION {{Message(n, "CALL", sid, body) : sid \in {0, 7}, body \in ForeignPayloads(n)} :
           n \in Names \cup UnregisteredNames}

Quiet ==
  /\ cpc = "idle"
  /\ \A c \in Conns : toServer[c] = <<>> /\ fromServer[c] = <<>>

\* Another caller sends a request to the processor on its own connection.
ForeignRequest ==
  /\ Quiet
  /\ nforeign < MaxForeign
  /\ \E req \in ForeignRequests : toServer' = [toServer EXCEPT !["foreign"] = Append(@, req)]
  /\ nforeign' = nforeign + 1
  /\ resp' = NoResp
  /\ outcome' = NoOutcome
  /\ proc' = NoProc
  /\ UNCHANGED <<prev, seqid, processMap, cpc, cop, cwbuf, swbuf, fromServer, ncalls, nsent, nrecv>>
  /\ UNCHANGED codecVars

\* That caller reads the processor's reply.
ForeignRecv ==
  /\ fromServer["foreign"] # <<>>
  /\ fromServer' = [fromServer EXCEPT !["foreign"] = Tail(@)]
  /\ UNCHANGED <<prev, seqid, processMap, cpc, cop, cwbuf, swbuf, toServer, resp, outcome, ncalls,
                 nsent, nrecv, nforeign, proc>>
  /\ UNCHANGED codecVars


(***************************************************************************)
(* The codec run (SpecCodec): a struct is written, a newer peer may add    *)
(* fields, and a fresh struct of the class reads the payload.              *)
(***************************************************************************)

\* Every valid field assignment of a struct of class cls.
StructsOf(cls) ==
  CASE cls = "execute_args" -> {[cls |-> cls, query |-> q] : q \in Opt(Strings)}
    [] cls = "fetchN_args" -> {[cls |-> cls, numRows |-> n] : n \in Opt(I32Values)}
    [] cls \in {"fetchOne_args", "fetchAll_args", "getSchema_args"} -> {[cls |-> cls]}
    [] cls = "execute_result" -> {[cls |-> cls, ex |-> x] : x \in Opt(HiveServerExceptions)}
    [] cls \in {"fetchOne_result", "getSchema_result"} ->
         {[cls |-> cls, success |-> v, ex |-> x] :
            v \in Opt(Strings), x \in Opt(HiveServerExceptions)}
    [] cls \in {"fetchN_result", "fetchAll_result"} ->
         {[cls |-> cls, success |-> v, ex |-> x] :
            v \in Opt(StringLists), x \in Opt(HiveServerExceptions)}

\* Field ids a newer schema might add to cls: ids its tag table does not hold.
UnknownIds(cls) == (0..2) \ FieldIds(cls)

\* Encoded fields with an id unknown to cls: a string, an i32 whose value is
\* the STOP code, a list of i32, an empty struct and a struct that holds a
\* string field with id 0.
UnknownFields(cls) ==
  UNION {{ <<T_STRING, fid, 1, 1>>,
           <<T_I32, fid, 0>>,
           <<T_LIST, fid, T_I32, 2, 0, 12>>,
           <<T_STRUCT, fid, T_STOP>>,
           <<T_STRUCT, fid, T_STRING, 0, 1, 2, T_STOP>> } : fid \in UnknownIds(cls)}

InsertAt(seq, i, x) == SubSeq(seq, 1, i) \o <<x>> \o SubSeq(seq, i + 1, Len(seq))

\* The payload on the wire: the field chunks, then the stop marker.
Payload(cs) == Flatten(cs) \o writeFieldStop

CodecInit ==
  /\ RpcInit
  /\ \E cls \in ArgsClasses \cup ResultClasses : obj \in StructsOf(cls)
  /\ chunks = <<>>
  /\ dec = ReadFail
  /\ cphase = "new"
  /\ nunk = 0

\* obj.write(oprot).
CodecWrite ==
  /\ cphase = "new"
  /\ chunks' = writeFields(obj)
  /\ cphase' = "written"
  /\ UNCHANGED <<obj, dec, nunk>>
  /\ UNCHANGED rpcVars

\* A peer with a newer schema puts a field of an unknown id at any place
\* among the fields.
CodecAddUnknown ==
  /\ cphase = "written"
  /\ nunk < MaxUnknown
  /\ \E i \in 0..Len(chunks), u \in UnknownFields(obj.cls) :
       chunks' = InsertAt(chunks, i, u)
  /\ nunk' = nunk + 1
  /\ UNCHANGED <<obj, dec, cphase>>
  /\ UNCHANGED rpcVars

\* A fresh struct of the same class read()s the payload.
CodecRead ==
  /\ cphase = "written"
  /\ dec' = read(obj.cls, Payload(chunks), 1)
  /\ cphase' = "read"
  /\ UNCHANGED <<obj, chunks, nunk>>
  /\ UNCHANGED rpcVars

CodecNext == CodecWrite \/ CodecAddUnknown \/ CodecRead

vars == <<codecVars, rpcVars>>

SpecCodec == CodecInit /\ [][CodecNext]_vars

(***************************************************************************)
(* The RPC run (Spec): the client's calls, the processor, the environment. *)
(***************************************************************************)
Init ==
  /\ RpcInit
  /\ obj = NewStruct("fetchOne_args")
  /\ chunks = <<>>
  /\ dec = ReadFail
  /\ cphase = "off"
  /\ nunk = 0

Next ==
  \/ execute
  \/ recv_execute
  \/ fetchOne
  \/ recv_fetchOne
  \/ fetchN
  \/ recv_fetchN
  \/ fetchAll
  \/ recv_fetchAll
  \/ getSchema
  \/ recv_getSchema
  \/ \E conn \in Conns : process_unknown(conn)
  \/ \E conn \in Conns : process_execute(conn)
  \/ \E conn \in Conns : process_fetchOne(conn)
  \/ \E conn \in Conns : process_fetchN(conn)
  \/ \E conn \in Conns : process_fetchAll(conn)
  \/ \E conn \in Conns : process_getSchema(conn)
  \/ PeerReply
  \/ ForeignRequest
  \/ ForeignRecv

Spec == Init /\ [][Next]_vars


(***************************************************************************)
(* Claims about the struct codec, checked under SpecCodec.                 *)
(***************************************************************************)
\* C2: for every Args and Result struct and every valid assignment of its
\* fields (None, or a value of the declared type, the empty string and the
\* empty list included), read() of what write() produced succeeds and
\* yields a struct equal by __eq__ to the original.
C2_RoundTrip ==
  (cphase = "read" /\ nunk = 0) => (dec.ok /\ StructEq(dec.val, obj))

\* A result struct with an empty list as success and an exception with an
\* empty message has been written and read back.
C2_Witness ==
  /\ cphase = "read" /\ nunk = 0 /\ dec.ok
  /\ obj.cls = "fetchN_result"
  /\ obj.success = Some(<<>>)
  /\ obj.ex = Some([cls |-> "HiveServerException", message |-> Some(<<>>)])

\* C7: read() of a payload that holds fields with ids not in the struct's
\* tag table, at any place among the known fields, succeeds, consumes the
\* whole payload, and decodes the known fields to the values it decodes
\* when the unknown fields are absent.
C7_UnknownFieldsSkipped ==
  (cphase = "read" /\ nunk > 0) =>
     /\ dec.ok
     /\ dec.pos = Len(Payload(chunks)) + 1
     /\ dec.val = read(obj.cls, write(obj), 1).val

\* Two unknown fields, one before the first known field and one between the
\* two known fields of a result struct with both fields populated.
C7_Witness ==
  /\ cphase = "read" /\ nunk = 2 /\ dec.ok
  /\ obj.cls = "fetchOne_result"
  /\ obj.success # None /\ obj.ex # None
  /\ Len(chunks) = 4
  /\ chunks[1] \in UnknownFields(obj.cls)
  /\ chunks[3] \in UnknownFields(obj.cls)

(***************************************************************************)
(* Claims about the client stub and the processor, checked under Spec.     *)
(***************************************************************************)
ValueOps == {"fetchOne", "fetchN", "fetchAll", "getSchema"}

\* The client's last call has ended having read the response resp.
CallEnded == cpc = "idle" /\ resp # NoResp

\* The result struct of class ResultClass(op) a payload holds.
ResultIn(op, body) == read(ResultClass(op), body, 1).val

\* C1: for fetchOne, fetchN, fetchAll and getSchema, when recv_<op> reads a
\* REPLY whose result struct has only success populated the call returns
\* exactly that value; when only ex is populated it raises exactly that
\* HiveServerException; when neither is populated it raises a
\* TApplicationException with reason MISSING_RESULT.
C1_RecvResult ==
  (CallEnded /\ cop \in ValueOps /\ resp.mtype = "REPLY") =>
     LET r == ResultIn(cop, resp.body)
     IN /\ (r.success # None /\ r.ex = None) =>
             (outcome.kind = "return" /\ outcome.val = r.success)
        /\ (r.success = None /\ r.ex # None) =>
             (outcome.kind = "raise" /\ outcome.exc = "HiveServerException"
                /\ outcome.val = r.ex)
        /\ (r.success = None /\ r.ex = None) =>
             (outcome.kind = "raise" /\ outcome.exc = "TApplicationException"
                /\ outcome.val[1].type = Some(MISSING_RESULT))

\* fetchN has read a REPLY with neither field populated and has raised
\* MISSING_RESULT.
C1_Witness ==
  /\ CallEnded /\ cop = "fetchN" /\ resp.mtype = "REPLY"
  /\ ResultIn(cop, resp.body) = NewStruct("fetchN_result")
  /\ outcome.exc = "TApplicationException"
  /\ outcome.val[1].type = Some(MISSING_RESULT)

\* The last process call served a name that is not in the dispatch table.
UnknownServed == proc.conn # "-" /\ proc.name \notin DOMAIN processMap

\* C3: when Processor.process reads a message whose name is not in the
\* dispatch table, it invokes no handler method, consumes the argument
\* struct, writes exactly one reply of kind EXCEPTION that carries a
\* TApplicationException with reason UNKNOWN_METHOD, flushes it, and returns
\* without raising.
C3_UnknownMethod ==
  UnknownServed =>
     /\ proc.hcalls = <<>>
     /\ proc.unread = 0
     /\ Len(proc.replies) = 1
     /\ proc.replies[1].mtype = "EXCEPTION"
     /\ LET x == read("TApplicationException", proc.replies[1].body, 1)
        IN x.ok /\ x.val.type = Some(UNKNOWN_METHOD)
     /\ swbuf[proc.conn] = <<>>
     /\ proc.ret = "None"

\* An unregistered name came with an argument struct that holds a nested
\* struct and a list, and the answer is on the caller's connection.
C3_Witness ==
  /\ UnknownServed
  /\ proc.name = "bogus"
  /\ proc.req.body =
       <<T_STRUCT, 1, T_I32, 1, 0, T_STOP, T_LIST, 2, T_STRING, 1, 0, T_STOP>>
  /\ Len(proc.replies) = 1
  /\ fromServer["foreign"] = proc.replies

\* The last process call invoked the handler, which behaved as proc.beh[1].
HandlerInvoked == proc.conn # "-" /\ proc.beh # None

\* C4: for each of the five operations, when the handler raises
\* HiveServerException the processor writes one reply of kind REPLY whose
\* result struct has ex set to that exception and success unset; when the
\* handler raises any other exception it propagates out of process_<op> and
\* no reply envelope is written to the output.
C4_HandlerRaises ==
  HandlerInvoked =>
     /\ proc.beh[1].kind = "raise_hse" =>
          /\ proc.ret = "True"
          /\ Len(proc.replies) = 1
          /\ proc.replies[1].mtype = "REPLY"
          /\ LET r == read(ResultClass(proc.hcalls[1].method), proc.replies[1].body, 1)
             IN /\ r.ok
                /\ r.val.ex = proc.beh[1].val
                /\ "success" \in DOMAIN r.val => r.val.success = None
     /\ proc.beh[1].kind = "raise_other" =>
          /\ proc.ret = "raised"
          /\ proc.replies = <<>>
          /\ swbuf[proc.conn] = <<>>
          /\ fromServer[proc.conn] = <<>>

\* The handler's execute raised something other than HiveServerException
\* while serving the client, which is left waiting with nothing to read.
C4_Witness ==
  /\ HandlerInvoked
  /\ proc.conn = "client"
  /\ proc.hcalls[1].method = "execute"
  /\ proc.beh[1].kind = "raise_other"
  /\ cpc = "recv"

\* C5: Client.execute returns normally with no value when the REPLY's result
\* struct has no ex populated and raises the carried HiveServerException
\* when it has; it never raises MISSING_RESULT for an empty result struct;
\* and each call performs exactly one send and one receive.
C5_Execute ==
  /\ (CallEnded /\ cop = "execute" /\ resp.mtype = "REPLY") =>
        LET r == ResultIn("execute", resp.body)
        IN /\ r.ex = None => outcome.kind = "return" /\ outcome.val = None
           /\ r.ex # None =>
                (outcome.kind = "raise" /\ outcome.exc = "HiveServerException"
                   /\ outcome.val = r.ex)
  /\ cop = "execute" =>
        /\ nsent = ncalls
        /\ nrecv = IF cpc = "recv" THEN ncalls - 1 ELSE ncalls

\* execute has read a REPLY with an empty result struct and returned.
C5_Witness ==
  /\ CallEnded /\ cop = "execute" /\ resp.mtype = "REPLY"
  /\ resp.body = <<T_STOP>>
  /\ outcome.kind = "return"
  /\ ncalls = 2

\* The client's last call was fetchN(0), served by the processor, whose
\* handler returned an empty list.
FetchNZeroServed ==
  /\ CallEnded /\ cop = "fetchN"
  /\ proc.conn = "client" /\ proc.beh # None
  /\ proc.hcalls[1].method = "fetchN"
  /\ proc.hcalls[1].arg = Some(0)
  /\ proc.beh[1].kind = "return"
  /\ proc.beh[1].val = Some(<<>>)

\* C6: fetchN(0) served by the processor with a handler that returns an
\* empty list returns an empty list and raises nothing: the empty list is
\* written as a populated success field and the client does not take it for
\* a missing result.
C6_FetchNZero ==
  FetchNZeroServed =>
     /\ resp \in {proc.replies[i] : i \in 1..Len(proc.replies)}
     /\ ResultIn("fetchN", resp.body).success = Some(<<>>)
     /\ outcome.kind = "return"
     /\ outcome.val = Some(<<>>)

C6_Witness == FetchNZeroServed /\ outcome.kind = "return"

\* The last process call wrote a REPLY for one of the four operations that
\* return a value.
ValueReplied ==
  /\ HandlerInvoked
  /\ proc.name \in ValueOps
  /\ proc.replies # <<>>

\* C8: every result struct the processor writes for fetchOne, fetchN,
\* fetchAll or getSchema has at most one of success and ex populated:
\* success only when the handler returned a value (and then that value), ex
\* only when the handler raised HiveServerException (and then that
\* exception).
C8_SuccessXorEx ==
  ValueReplied =>
     LET r == ResultIn(proc.name, proc.replies[1].body)
     IN /\ ~(r.success # None /\ r.ex # None)
        /\ r.success # None =>
             (proc.beh[1].kind = "return" /\ proc.beh[1].val = r.success)
        /\ r.ex # None =>
             (proc.beh[1].kind = "raise_hse" /\ proc.beh[1].val = r.ex)

\* getSchema's handler raised HiveServerException and the reply carries it.
C8_Witness ==
  /\ ValueReplied
  /\ proc.name = "getSchema"
  /\ proc.beh[1].kind = "raise_hse"
  /\ ResultIn(proc.name, proc.replies[1].body).ex = proc.beh[1].val

\* C9: on one client over one transport, requests and responses strictly
\* alternate: each call writes and flushes exactly one CALL message and then
\* reads exactly one response before it returns or raises, so at most one
\* request is ever in flight.
C9_OneInFlight ==
  /\ cwbuf = <<>>
  /\ nsent = ncalls
  /\ cpc = "idle" => (nrecv = nsent /\ toServer["client"] = <<>>
                        /\ fromServer["client"] = <<>>)
  /\ cpc = "recv" => nrecv = nsent - 1
  /\ Len(toServer["client"]) + Len(fromServer["client"]) <= 1
  /\ \A i \in 1..Len(toServer["client"]) :
        toServer["client"][i].mtype = "CALL" /\ toServer["client"][i].name = cop

\* Two calls have been made and both have ended.
C9_Witness == ncalls = 2 /\ nsent = 2 /\ nrecv = 2 /\ cpc = "idle" /\ cop = "fetchAll"

\* C10: for each of the five operations, when the response envelope read by
\* recv_<op> has kind EXCEPTION, the client decodes a TApplicationException
\* from the payload and raises it, decoding no result struct and returning
\* no value.
C10_ExceptionReply ==
  (CallEnded /\ resp.mtype = "EXCEPTION") =>
     /\ outcome.kind = "raise"
     /\ outcome.exc = "TApplicationException"
     /\ outcome.decoded = "TApplicationException"
     /\ outcome.val[1] \in PeerExceptions
     /\ write(outcome.val[1]) = resp.body

\* execute has read an EXCEPTION envelope and raised the exception in it.
C10_Witness ==
  /\ CallEnded /\ cop = "execute" /\ resp.mtype = "EXCEPTION"
  /\ outcome.kind = "raise"
  /\ outcome.val = Some(TApplicationException(UNKNOWN_METHOD, UnknownFunction("bogus")))

\* The last process call served the request proc.req.
Served == proc.conn # "-"

\* C12: every reply envelope the processor writes carries the sequence id
\* and the operation name of the request it answers, with kind REPLY for a
\* registered name and kind EXCEPTION for an unregistered one, and a
\* registered name invokes exactly the handler method of that name, exactly
\* once.
C12_ReplyMatchesRequest ==
  Served =>
     /\ \A i \in 1..Len(proc.replies) :
          /\ proc.replies[i].name = proc.req.name
          /\ proc.replies[i].seqid = proc.req.seqid
          /\ proc.replies[i].mtype =
               IF proc.req.name \in DOMAIN processMap THEN "REPLY" ELSE "EXCEPTION"
     /\ proc.req.name \in DOMAIN processMap =>
          /\ Len(proc.hcalls) = 1
          /\ proc.hcalls[1].method = proc.req.name
     /\ proc.req.name \notin DOMAIN processMap => proc.hcalls = <<>>

\* A fetchN request with sequence id 7 from the other caller was answered
\* with a REPLY.
C12_Witness ==
  /\ Served
  /\ proc.conn = "foreign"
  /\ proc.req.name = "fetchN" /\ proc.req.seqid = 7
  /\ Len(proc.replies) = 1
  /\ proc.replies[1].mtype = "REPLY"
  /\ proc.hcalls[1].method = "fetchN"

\* The client's last call read a REPLY whose result struct has both success
\* and ex populated.
BothPopulated ==
  /\ CallEnded /\ cop \in ValueOps /\ resp.mtype = "REPLY"
  /\ ResultIn(cop, resp.body).success # None
  /\ ResultIn(cop, resp.body).ex # None

\* C13: for fetchOne, fetchN, fetchAll and getSchema, when the decoded
\* result struct has both success and ex populated, the client returns the
\* success value and does not raise the exception.
C13_SuccessFirst ==
  BothPopulated =>
     /\ outcome.kind = "return"
     /\ outcome.val = ResultIn(cop, resp.body).success

\* fetchAll read a result with a two-element list and an exception, and
\* returned the list.
C13_Witness ==
  /\ BothPopulated
  /\ cop = "fetchAll"
  /\ outcome.kind = "return"
  /\ outcome.val = Some(<< <<>>, <<1>> >>)

\* What recv_<op> makes of the envelope msg.
RecvOutcome(op, msg) ==
  IF op = "execute" THEN recv_execute_result(msg) ELSE recv_result(op, msg)

\* C14: the outcome of recv_<op> depends only on the kind and the payload
\* of the response it reads: a response that differs from the one read only
\* in envelope name or sequence id gives the same outcome, so a reply whose
\* name or sequence id does not match the request is accepted.
C14_NameAndSeqidIgnored ==
  CallEnded =>
     \A n \in Names \cup UnregisteredNames : \A sid \in {seqid, seqid + 1, 7} :
        RecvOutcome(cop, [resp EXCEPT !.name = n, !.seqid = sid]) = outcome

\* getSchema read a REPLY named otherwise and numbered otherwise than its
\* request, and returned the value in it.
C14_Witness ==
  /\ CallEnded /\ cop = "getSchema" /\ resp.mtype = "REPLY"
  /\ resp.name # cop /\ resp.seqid # seqid
  /\ outcome.kind = "return"
  /\ outcome.val = Some(<<2, 1>>)

(***************************************************************************)
(* The history run (SpecHistory): the client's calls and the processor's   *)
(* dispatches on the client's connection, with the previous call of the    *)
(* same operation remembered when the next one starts.                     *)
(***************************************************************************)
execute_rec ==
  \E query \in Opt(Strings) : beginCall("execute") /\ send_execute(query) /\ remember("execute")

fetchOne_rec == beginCall("fetchOne") /\ send_fetchOne /\ remember("fetchOne")

fetchN_rec ==
  \E numRows \in Opt(I32Values) : beginCall("fetchN") /\ send_fetchN(numRows) /\ remember("fetchN")

fetchAll_rec == beginCall("fetchAll") /\ send_fetchAll /\ remember("fetchAll")

getSchema_rec == beginCall("getSchema") /\ send_getSchema /\ remember("getSchema")

HistoryNext ==
  \/ execute_rec
  \/ fetchOne_rec
  \/ fetchN_rec
  \/ fetchAll_rec
  \/ getSchema_rec
  \/ recv_execute
  \/ recv_fetchOne
  \/ recv_fetchN
  \/ recv_fetchAll
  \/ recv_getSchema
  \/ process_execute("client")
  \/ process_fetchOne("client")
  \/ process_fetchN("client")
  \/ process_fetchAll("client")
  \/ process_getSchema("client")
  \/ PeerReply

SpecHistory == Init /\ [][HistoryNext]_vars


\* The client's last call and the one before it were calls of the same
\* operation that read the same response.
SameAsBefore == CallEnded /\ prev.op = cop /\ prev.resp = resp

\* C11: calls are stateless.  After any sequence of client calls and
\* processor dispatches the client's sequence id and the processor's
\* dispatch table are what they were at construction, and a call that reads
\* the response an earlier call of the same operation read ends as that
\* earlier call did: nothing is carried over from one call to the next.
C11_Stateless ==
  /\ seqid = 0
  /\ processMap = [n \in Names |-> n]
  /\ SameAsBefore => outcome = prev.outcome

\* Two fetchOne calls in a row were served by the processor, whose handler
\* raised the same HiveServerException both times, and both raised it.
C11_Witness ==
  /\ SameAsBefore
  /\ ncalls = MaxCalls /\ nsent = ncalls
  /\ cop = "fetchOne"
  /\ Served /\ proc.conn = "client"
  /\ outcome.exc = "HiveServerException"
  /\ seqid = 0

====
